---- MODULE Spec2Model ----
(***************************************************************************)
(* Hybrid retrieval core of graph_rag: Retriever (index, retrieve,         *)
(* _semantic_search, _graph_expand, _merge) and Reranker.rerank.           *)
(*                                                                         *)
(* Scores are fixed-point integers: ONE stands for the float 1.0.  The     *)
(* score sets are chosen so that every blend is exact; float rounding is   *)
(* not modelled.  alpha_semantic is kept in tenths (6 stands for 0.6).     *)
(***************************************************************************)
EXTENDS Integers, Sequences, FiniteSets, TLC

\* ---------------------------------------------------------------- bounds
MaxIndexed == 2        \* cap on len(_chunk_ids)
MaxBatch == 2          \* cap on the length of a batch passed to index
MaxNeighbors == 1      \* cap on the length of a neighbors() answer
MaxHits == 2           \* cap on the length of the lists given to _merge / rerank
MaxDocs == 1           \* cap on the number of documents of one ingest call
MaxWords == 2          \* cap on the number of words of a document

\* ------------------------------------------------------------- constants
ONE == 100000          \* the float 1.0 (graph hit score)
NoDim == 0             \* self._dim = None
RerankScoreWeight == 7 \* 0.7, in tenths
RerankCentralityWeight == 3 \* 0.3, in tenths
GraphExpandMaxHops == 2 \* the literal max_hops=2 of _graph_expand

\* ------------------------------------------------------------ value sets
ChunkIds == {"a", "b"}
\* Chunk(id, text, source_document); "a" exists with two different texts
Chunk == { [id |-> "a", text |-> "t1"], [id |-> "a", text |-> "t2"],
           [id |-> "b", text |-> "t1"] }
Queries == {"q1"}

\* An Embedding Provider: whether encode() yields a 2-D array, and its width.
Embedders == { [valid |-> TRUE, dim |-> 1], [valid |-> TRUE, dim |-> 2],
               [valid |-> FALSE, dim |-> 1] }

\* RetrievalConfig values the Retriever may be constructed with: the defaults, and
\* values the dataclass takes as they come (alpha_semantic in tenths).
RetrievalConfig ==
    { [top_k_vectors |-> 10, top_k_graph |-> 10, alpha_semantic |-> 6],
      [top_k_vectors |-> 1,  top_k_graph |-> 1,  alpha_semantic |-> 5],
      [top_k_vectors |-> 1,  top_k_graph |-> 0,  alpha_semantic |-> 0] }

VARIABLES
    id_to_chunk,   \* Retriever._id_to_chunk : id -> Chunk
    chunk_ids,     \* Retriever._chunk_ids : position -> id
    faiss_index,   \* Retriever._faiss_index : [created, d, vectors]
    dim,           \* Retriever._dim (NoDim for None)
    config,        \* Retriever.config
    embedder,      \* Retriever.embedder
    graph_calls,   \* calls made to the GraphStore by the most recent operation
    ret,           \* the most recent operation: its arguments and what it returned
    threads,       \* the index calls in progress: caller -> its position and locals
    graph_chunks,  \* the (:Chunk) nodes of the graph: chunk_id -> text
    graph_config   \* PipelineConfig.graph (GraphConfig)

vars == <<id_to_chunk, chunk_ids, faiss_index, dim, config, embedder, graph_calls, ret,
          threads, graph_chunks, graph_config>>
index_state == <<id_to_chunk, chunk_ids, faiss_index, dim>>
\* What the operations of the Retriever and the Reranker never touch.
pipeline_state == <<threads, graph_chunks, graph_config>>

\* --------------------------------------------------------------- helpers
Min(x, y) == IF x <= y THEN x ELSE y

SeqsUpTo(S, n) == UNION { [1..k -> S] : k \in 0..n }

Range(s) == { s[i] : i \in DOMAIN s }

NoFaissIndex == [created |-> FALSE, d |-> NoDim, vectors |-> <<>>]

\* No index call is in progress.
NoThreads == <<>>

\* GraphConfig(): max_hops: int = 2
GraphConfigDefault == [max_hops |-> 2]

\* The record every operation leaves in ret; fields an operation does not use are
\* empty.  repeat says that an index call repeats the call right before it,
\* graph_raised that the GraphStore call of the operation raised, seen_vectors and
\* seen_ids what a search found as index.ntotal and len(_chunk_ids).
Ret(op, outcome) ==
    [op |-> op, outcome |-> outcome, batch |-> <<>>, repeat |-> FALSE, query |-> "", seeds |-> <<>>,
     semantic_hits |-> <<>>, graph_hits |-> <<>>, semantic |-> <<>>, graph |-> <<>>, merged |-> <<>>,
     merged_in |-> <<>>, centrality |-> <<>>, items |-> <<>>,
     graph_raised |-> FALSE, seen_vectors |-> 0, seen_ids |-> 0]

\* ------------------------------------------------------- Retriever.index
\* index without the filter on ids already present
NewChunks_NoFilter(chunks) == chunks

\* new_chunks = [c for c in chunks if c.id not in self._id_to_chunk]
NewChunks(chunks) == SelectSeq(chunks, LAMBDA c : c.id \notin DOMAIN id_to_chunk)

\* embedder.encode([c.text for c in new_chunks]): one vector per text
Encode(texts) == [i \in DOMAIN texts |-> [text |-> texts[i], dim |-> embedder.dim]]

\* for chunk in new_chunks: self._id_to_chunk[chunk.id] = chunk  (the last one wins)
RECURSIVE Register(_, _)
Register(map, chunks) ==
    IF chunks = <<>> THEN map
    ELSE LET c == Head(chunks)
         IN Register([i \in DOMAIN map \cup {c.id} |-> IF i = c.id THEN c ELSE map[i]],
                     Tail(chunks))

\* index without the comparison of dim with self._dim
IndexOutcome_NoDimCheck(chunks) ==
    IF chunks = <<>> THEN "noop"
    ELSE IF NewChunks(chunks) = <<>> THEN "noop"
    ELSE IF ~embedder.valid THEN "shape_error"
    ELSE "ok"

\* The outcome of the checks of index before anything is appended.
IndexOutcome(chunks) ==
    IF chunks = <<>> THEN "noop"
    ELSE IF NewChunks(chunks) = <<>> THEN "noop"
    ELSE IF ~embedder.valid THEN "shape_error"
    ELSE IF dim # NoDim /\ embedder.dim # dim THEN "dim_error"
    ELSE "ok"

\* index registering an id only when the position list does not hold it yet,
\* while every vector is added
IndexAppend_RegisterOnce(chunks) ==
    LET new_chunks == NewChunks(chunks)
        vectors == Encode([i \in DOMAIN new_chunks |-> new_chunks[i].text])
        d == IF dim = NoDim THEN embedder.dim ELSE dim
        first(i) == \A j \in 1..(i - 1) : new_chunks[j].id # new_chunks[i].id
        firsts == SelectSeq([i \in DOMAIN new_chunks |-> <<i, new_chunks[i].id>>],
                            LAMBDA p : first(p[1]))
    IN /\ dim' = d
       /\ faiss_index' = [created |-> TRUE,
                          d |-> IF faiss_index.created THEN faiss_index.d ELSE d,
                          vectors |-> faiss_index.vectors \o vectors]
       /\ id_to_chunk' = Register(id_to_chunk, new_chunks)
       /\ chunk_ids' = chunk_ids \o [i \in DOMAIN firsts |-> firsts[i][2]]

\* index putting the ids of the batch in front of the position list
IndexAppend_Prepend(chunks) ==
    LET new_chunks == NewChunks(chunks)
        vectors == Encode([i \in DOMAIN new_chunks |-> new_chunks[i].text])
        d == IF dim = NoDim THEN embedder.dim ELSE dim
    IN /\ dim' = d
       /\ faiss_index' = [created |-> TRUE,
                          d |-> IF faiss_index.created THEN faiss_index.d ELSE d,
                          vectors |-> vectors \o faiss_index.vectors]
       /\ id_to_chunk' = Register(id_to_chunk, new_chunks)
       /\ chunk_ids' = [i \in DOMAIN new_chunks |-> new_chunks[i].id] \o chunk_ids

\* What index appends on success.
IndexAppend(chunks) ==
    LET new_chunks == NewChunks(chunks)
        vectors == Encode([i \in DOMAIN new_chunks |-> new_chunks[i].text])
        d == IF dim = NoDim THEN embedder.dim ELSE dim
    IN /\ dim' = d
       /\ faiss_index' = [created |-> TRUE,
                          d |-> IF faiss_index.created THEN faiss_index.d ELSE d,
                          vectors |-> faiss_index.vectors \o vectors]
       /\ id_to_chunk' = Register(id_to_chunk, new_chunks)
       /\ chunk_ids' = chunk_ids \o [i \in DOMAIN new_chunks |-> new_chunks[i].id]

Index(chunks) ==
    /\ Len(chunk_ids) + Len(NewChunks(chunks)) <= MaxIndexed
    /\ LET outcome == IndexOutcome(chunks)
       IN /\ IF outcome = "ok"
             THEN IndexAppend(chunks)
             ELSE UNCHANGED index_state
          /\ ret' = [Ret("index", outcome) EXCEPT
                        !.batch = chunks,
                        !.repeat = (ret.op = "index" /\ ret.batch = chunks)]
    /\ graph_calls' = <<>>
    /\ UNCHANGED <<config, embedder, pipeline_state>>

\* ---------------------------------------------------- RetrievedChunk lists
\* RetrievedChunk(chunk, score)
RetrievedChunk(chunk, score) == [chunk |-> chunk, score |-> score]

\* list.sort(key=lambda x: x.score, reverse=True): stable, descending by score
RECURSIVE InsertDesc(_, _)
InsertDesc(sorted, hit) ==
    IF sorted = <<>> THEN <<hit>>
    ELSE IF Head(sorted).score >= hit.score
         THEN <<Head(sorted)>> \o InsertDesc(Tail(sorted), hit)
         ELSE <<hit>> \o sorted

RECURSIVE SortDesc(_)
SortDesc(hits) ==
    IF hits = <<>> THEN <<>>
    ELSE InsertDesc(SortDesc(SubSeq(hits, 1, Len(hits) - 1)), hits[Len(hits)])

\* ---------------------------------------------- Retriever._semantic_search
\* The inner product of the query's vector with the vector of a chunk text.
Similarity(query, text) == IF text = "t1" THEN 40000 ELSE 50000

\* self._faiss_index.search(q_vec, k): the k best positions, best first; the order
\* among equal scores is the library's choice.
FaissSearch(query, k) ==
    LET vectors == faiss_index.vectors
        n == Min(k, Len(vectors))
        score(p) == Similarity(query, vectors[p].text)
    IN { idxs \in [1..n -> DOMAIN vectors] :
           /\ \A i, j \in 1..n : i < j => /\ idxs[i] # idxs[j]
                                          /\ score(idxs[i]) >= score(idxs[j])
           /\ \A p \in DOMAIN vectors :
                  p \notin Range(idxs) => \A i \in 1..n : score(p) <= score(idxs[i]) }

\* What _semantic_search does before it reads the search result:
\* "empty" (returns []), "error" (faiss rejects the query vector) or "search".
SemanticSearchPath ==
    IF ~faiss_index.created \/ chunk_ids = <<>> THEN "empty"
    ELSE IF ~embedder.valid THEN "empty"
    ELSE IF embedder.dim # faiss_index.d THEN "error"
    ELSE "search"

\* The search results _semantic_search may be handed.
SearchChoices(query) ==
    IF SemanticSearchPath = "search"
    THEN FaissSearch(query, Min(config.top_k_vectors, Len(chunk_ids)))
    ELSE { <<>> }

\* The loop over zip(scores[0], idxs[0]).
RECURSIVE SemanticHits(_, _)
SemanticHits(query, idxs) ==
    IF idxs = <<>> THEN <<>>
    ELSE LET idx == Head(idxs)
             rest == SemanticHits(query, Tail(idxs))
         IN IF idx > Len(chunk_ids) THEN rest
            ELSE IF chunk_ids[idx] \notin DOMAIN id_to_chunk THEN rest
            ELSE <<RetrievedChunk(id_to_chunk[chunk_ids[idx]],
                                  Similarity(query, faiss_index.vectors[idx].text))>>
                 \o rest

\* ------------------------------------------------- Retriever._graph_expand
NodeIds == ChunkIds \cup {"x"}
Seeds == { <<>>, <<"e1">> }

\* What GraphStore.neighbors may answer: it raises, or returns distinct ids.
NoAnswer == [raised |-> FALSE, ids |-> <<>>]
NeighborAnswers(limit) ==
    {[raised |-> TRUE, ids |-> <<>>]} \cup
    { [raised |-> FALSE, ids |-> ids] :
        ids \in { s \in SeqsUpTo(NodeIds, Min(limit, MaxNeighbors)) :
                    \A i, j \in DOMAIN s : i # j => s[i] # s[j] } }

\* _graph_expand without the early return on empty seeds
GraphExpandCalls_NoGuard(entry_entities) ==
    << [fn |-> "neighbors", node_ids |-> entry_entities,
        max_hops |-> GraphExpandMaxHops, limit |-> config.top_k_graph] >>

\* The calls _graph_expand makes to the GraphStore.
GraphExpandCalls(entry_entities) ==
    IF entry_entities = <<>> THEN <<>>
    ELSE << [fn |-> "neighbors", node_ids |-> entry_entities,
             max_hops |-> GraphExpandMaxHops, limit |-> config.top_k_graph] >>

\* The loop over node_ids.
RECURSIVE GraphHits(_)
GraphHits(node_ids) ==
    IF node_ids = <<>> THEN <<>>
    ELSE IF Head(node_ids) \notin DOMAIN id_to_chunk THEN GraphHits(Tail(node_ids))
    ELSE <<RetrievedChunk(id_to_chunk[Head(node_ids)], ONE)>> \o GraphHits(Tail(node_ids))

GraphExpand(entry_entities, answer) ==
    IF entry_entities = <<>> THEN <<>> ELSE GraphHits(answer.ids)

\* -------------------------------------------------------- Retriever._merge
\* the blend with the two weights exchanged
Blend_Swapped(alpha, semantic_score, graph_score) ==
    ((10 - alpha) * semantic_score + alpha * graph_score) \div 10

\* alpha * semantic_score + (1 - alpha) * graph_score, alpha in tenths
Blend(alpha, semantic_score, graph_score) ==
    (alpha * semantic_score + (10 - alpha) * graph_score) \div 10

\* merged = {hit.chunk.id: hit for hit in semantic}.  The dict holds references:
\* <<"s", i>> is the object semantic[i], <<"g", j>> the object graph[j]; keys keeps
\* the insertion order of the dict.
RECURSIVE MergeSeed(_, _, _)
MergeSeed(semantic, i, d) ==
    IF i > Len(semantic) THEN d
    ELSE LET id == semantic[i].chunk.id
         IN MergeSeed(semantic, i + 1,
                [keys |-> IF id \in Range(d.keys) THEN d.keys ELSE Append(d.keys, id),
                 ref |-> [k \in DOMAIN d.ref \cup {id} |->
                             IF k = id THEN <<"s", i>> ELSE d.ref[k]]])

\* for hit in graph: blend into the object the dict holds, or insert the graph hit.
\* st = [semantic, graph, keys, ref]: the two lists carry the objects' current scores.
RECURSIVE MergeGraph(_, _, _)
MergeGraph(alpha, st, j) ==
    IF j > Len(st.graph) THEN st
    ELSE LET hit == st.graph[j]
             id == hit.chunk.id
         IN IF id \in DOMAIN st.ref
            THEN LET r == st.ref[id]
                     old == IF r[1] = "s" THEN st.semantic[r[2]].score
                            ELSE st.graph[r[2]].score
                     new == Blend(alpha, old, hit.score)
                 IN MergeGraph(alpha,
                        IF r[1] = "s"
                        THEN [st EXCEPT !.semantic[r[2]].score = new]
                        ELSE [st EXCEPT !.graph[r[2]].score = new],
                        j + 1)
            ELSE MergeGraph(alpha,
                     [st EXCEPT !.keys = Append(st.keys, id),
                                !.ref = [k \in DOMAIN st.ref \cup {id} |->
                                            IF k = id THEN <<"g", j>> ELSE st.ref[k]]],
                     j + 1)

\* a merge that concatenates the two lists instead of keying them by id
Merge_Concat(alpha, semantic, graph) ==
    [semantic |-> semantic, graph |-> graph, merged |-> SortDesc(semantic \o graph)]

\* _merge(semantic, graph): the returned list, and the two argument lists as the
\* call leaves them (their elements are the objects the dict updated).
Merge(alpha, semantic, graph) ==
    LET d == MergeSeed(semantic, 1, [keys |-> <<>>, ref |-> <<>>])
        st == MergeGraph(alpha, [semantic |-> semantic, graph |-> graph,
                                 keys |-> d.keys, ref |-> d.ref], 1)
        value(k) == LET r == st.ref[k]
                    IN IF r[1] = "s" THEN st.semantic[r[2]] ELSE st.graph[r[2]]
        merged_list == [i \in DOMAIN st.keys |-> value(st.keys[i])]
    IN [semantic |-> st.semantic, graph |-> st.graph, merged |-> SortDesc(merged_list)]

\* ------------------------------------------------------ Retriever.retrieve
\* idxs is the answer of the faiss search (one of SearchChoices(query)), answer the
\* answer of GraphStore.neighbors.
Retrieve(query, entry_entities, idxs, answer) ==
    LET path == SemanticSearchPath
        semantic_hits == SemanticHits(query, idxs)
        graph_hits == GraphExpand(entry_entities, answer)
        m == Merge(config.alpha_semantic, semantic_hits, graph_hits)
        call == [Ret("retrieve", "ok") EXCEPT !.query = query, !.seeds = entry_entities]
    IN /\ IF path = "error"
          THEN /\ ret' = [call EXCEPT !.outcome = "search_error"]
               /\ graph_calls' = <<>>
          ELSE /\ graph_calls' = GraphExpandCalls(entry_entities)
               /\ IF entry_entities # <<>> /\ answer.raised
                  THEN ret' = [call EXCEPT !.outcome = "graph_error",
                                           !.graph_raised = TRUE,
                                           !.semantic_hits = semantic_hits]
                  ELSE ret' = [call EXCEPT !.semantic_hits = semantic_hits,
                                           !.graph_hits = graph_hits,
                                           !.semantic = m.semantic,
                                           !.graph = m.graph,
                                           !.merged = m.merged]
       /\ UNCHANGED <<index_state, config, embedder, pipeline_state>>

\* --------------------------------------------------------- Reranker.rerank
CentralityValues == {0, 50000, 200000}

\* What GraphStore.centrality_score(ids) may answer: it raises, or returns one
\* (chunk_id, degree) row for some of the ids asked for; scores is the dict
\* {nid: score for nid, score in rows}.
CentralityAnswers(ids) ==
    {[raised |-> TRUE, scores |-> <<>>]} \cup
    { [raised |-> FALSE, scores |-> f] :
        f \in UNION { [S -> CentralityValues] : S \in SUBSET Range(ids) } }

\* final_score = 0.7 * hit.score + 0.3 * centrality.get(hit.chunk.id, 0.0)
FinalScore(hit, centrality) ==
    LET c_score == IF hit.chunk.id \in DOMAIN centrality
                   THEN centrality[hit.chunk.id] ELSE 0
    IN (RerankScoreWeight * hit.score + RerankCentralityWeight * c_score) \div 10

\* The calls rerank makes to the GraphStore.
RerankCalls(merged) ==
    IF merged = <<>> THEN <<>>
    ELSE << [fn |-> "centrality_score",
             node_ids |-> [i \in DOMAIN merged |-> merged[i].chunk.id],
             max_hops |-> 0, limit |-> 0] >>

\* rerank without the fallback on an empty centrality answer
RerankItems_NoFallback(merged, centrality) ==
    IF merged = <<>> THEN <<>>
    ELSE SortDesc([i \in DOMAIN merged |->
                      RetrievedChunk(merged[i].chunk, FinalScore(merged[i], centrality))])

\* rerank skipping the items the centrality answer does not hold
RerankItems_SkipMissing(merged, centrality) ==
    IF merged = <<>> THEN <<>>
    ELSE IF DOMAIN centrality = {} THEN merged
    ELSE LET kept == SelectSeq(merged, LAMBDA h : h.chunk.id \in DOMAIN centrality)
         IN SortDesc([i \in DOMAIN kept |->
                         RetrievedChunk(kept[i].chunk, FinalScore(kept[i], centrality))])

\* RerankedResult.items for a call whose centrality lookup returned.
RerankItems(merged, centrality) ==
    IF merged = <<>> THEN <<>>
    ELSE IF DOMAIN centrality = {} THEN merged
    ELSE SortDesc([i \in DOMAIN merged |->
                      RetrievedChunk(merged[i].chunk, FinalScore(merged[i], centrality))])

\* rerank(result), given the answer of the GraphStore
RerankRet(merged, answer) ==
    IF merged # <<>> /\ answer.raised
    THEN [Ret("rerank", "graph_error") EXCEPT !.merged_in = merged,
                                              !.graph_raised = TRUE]
    ELSE [Ret("rerank", "ok") EXCEPT !.merged_in = merged,
                                     !.centrality = answer.scores,
                                     !.items = RerankItems(merged, answer.scores)]

\* GraphRAGPipeline.answer: the result of retrieve is handed to rerank.
Rerank(answer) ==
    /\ ret.op = "retrieve"
    /\ ret.outcome = "ok"
    /\ ret' = RerankRet(ret.merged, answer)
    /\ graph_calls' = RerankCalls(ret.merged)
    /\ UNCHANGED <<index_state, config, embedder, pipeline_state>>

\* The Retriever's embedder is replaced by another provider.
SetEmbedder(e) ==
    /\ e # embedder
    /\ embedder' = e
    /\ ret' = Ret("set_embedder", "ok")
    /\ graph_calls' = <<>>
    /\ UNCHANGED <<index_state, config, pipeline_state>>

\* ------------------------------------------------------------------ spec
Init ==
    /\ id_to_chunk = <<>>
    /\ chunk_ids = <<>>
    /\ faiss_index = NoFaissIndex
    /\ dim = NoDim
    /\ config \in RetrievalConfig
    /\ embedder \in Embedders
    /\ graph_calls = <<>>
    /\ ret = Ret("init", "ok")
    /\ threads = NoThreads
    /\ graph_chunks = <<>>
    /\ graph_config = GraphConfigDefault

Next ==
    \/ \E chunks \in SeqsUpTo(Chunk, MaxBatch) : Index(chunks)
    \/ \E e \in Embedders : SetEmbedder(e)
    \/ \E query \in Queries : \E idxs \in SearchChoices(query) :
         \E entry_entities \in Seeds :
            \E answer \in IF entry_entities = <<>> \/ SemanticSearchPath = "error"
                          THEN {NoAnswer}
                          ELSE NeighborAnswers(config.top_k_graph) :
               Retrieve(query, entry_entities, idxs, answer)
    \/ \E answer \in CentralityAnswers([i \in DOMAIN ret.merged |-> ret.merged[i].chunk.id]) :
         Rerank(answer)

Spec == Init /\ [][Next]_vars

\* ------------------------------------------- _merge and rerank on any lists
\* The lists _merge and rerank are called with directly: any RetrievedChunk lists
\* of at most MaxHits entries, an id possibly occurring more than once.
PureChunk == { [id |-> i, text |-> "t1"] : i \in {"a", "b", "c"} }
SemanticScores == {50000, 90000}
GraphScores == {50000, ONE}
RerankScores == {50000, 80000}

HitLists(scores) == SeqsUpTo([chunk : PureChunk, score : scores], MaxHits)

PureInputs ==
    { [Ret("merge_in", "ok") EXCEPT !.semantic_hits = s, !.graph_hits = g] :
        s \in HitLists(SemanticScores), g \in HitLists(GraphScores) }
    \cup
    { [Ret("rerank_in", "ok") EXCEPT !.merged_in = m] : m \in HitLists(RerankScores) }

\* retriever._merge(semantic, graph)
MergeCall ==
    /\ ret.op = "merge_in"
    /\ LET m == Merge(config.alpha_semantic, ret.semantic_hits, ret.graph_hits)
       IN ret' = [Ret("merge", "ok") EXCEPT !.semantic_hits = ret.semantic_hits,
                                            !.graph_hits = ret.graph_hits,
                                            !.semantic = m.semantic,
                                            !.graph = m.graph,
                                            !.merged = m.merged]
    /\ UNCHANGED <<index_state, config, embedder, graph_calls, pipeline_state>>

\* reranker.rerank(RetrievalResult(merged=...))
RerankCall(answer) ==
    /\ ret.op = "rerank_in"
    /\ ret' = RerankRet(ret.merged_in, answer)
    /\ graph_calls' = RerankCalls(ret.merged_in)
    /\ UNCHANGED <<index_state, config, embedder, pipeline_state>>

InitPure ==
    /\ id_to_chunk = <<>>
    /\ chunk_ids = <<>>
    /\ faiss_index = NoFaissIndex
    /\ dim = NoDim
    /\ config \in RetrievalConfig
    /\ embedder = [valid |-> TRUE, dim |-> 1]
    /\ graph_calls = <<>>
    /\ ret \in PureInputs
    /\ threads = NoThreads
    /\ graph_chunks = <<>>
    /\ graph_config = GraphConfigDefault

NextPure ==
    \/ MergeCall
    \/ \E answer \in CentralityAnswers([i \in DOMAIN ret.merged_in |->
                                           ret.merged_in[i].chunk.id]) :
         RerankCall(answer)

SpecPure == InitPure /\ [][NextPure]_vars

\* ------------------------------------- index and search called concurrently
\* The Retriever holds no lock: index calls of several callers and searches
\* interleave at the statements that read or write the shared fields.  A step is
\* lines 36-51 (filter, encode, dimension), lines 58-60 (faiss add) or one
\* iteration of the loop of lines 62-64; a search is one read of the fields.
Writers == {"w1", "w2"}

IdleThread == [pc |-> "idle", batch |-> <<>>, new_chunks |-> <<>>, vectors |-> <<>>, i |-> 1]

\* The batches the callers pass: non-empty, no id twice.
Batches ==
    { b \in SeqsUpTo(Chunk, MaxBatch) :
        b # <<>> /\ \A i, j \in DOMAIN b : i # j => b[i].id # b[j].id }

\* The chunks index calls in progress have still to register.
RECURSIVE Pending(_)
Pending(ws) ==
    IF ws = {} THEN 0
    ELSE LET w == CHOOSE x \in ws : TRUE
         IN (Len(threads[w].new_chunks) - (threads[w].i - 1)) + Pending(ws \ {w})

\* index(chunks), lines 36-51: the early returns, the filter, encode, the checks
\* of the shape and the dimension.
IndexStart(w, chunks) ==
    /\ threads[w].pc = "idle"
    /\ Len(chunk_ids) + Pending(Writers) + Len(NewChunks(chunks)) <= MaxIndexed
    /\ LET outcome == IndexOutcome(chunks)
           new_chunks == NewChunks(chunks)
       IN IF outcome = "ok"
          THEN /\ dim' = IF dim = NoDim THEN embedder.dim ELSE dim
               /\ threads' = [threads EXCEPT ![w] =
                     [pc |-> "add", batch |-> chunks, new_chunks |-> new_chunks,
                      vectors |-> Encode([i \in DOMAIN new_chunks |-> new_chunks[i].text]),
                      i |-> 1]]
               /\ UNCHANGED ret
          ELSE /\ ret' = [Ret("index", outcome) EXCEPT !.batch = chunks]
               /\ UNCHANGED <<dim, threads>>
    /\ UNCHANGED <<id_to_chunk, chunk_ids, faiss_index, config, embedder, graph_calls,
                   graph_chunks, graph_config>>

\* index, lines 58-60: the index is created if there is none, the vectors are added.
IndexAdd(w) ==
    /\ threads[w].pc = "add"
    /\ faiss_index' = [created |-> TRUE,
                       d |-> IF faiss_index.created THEN faiss_index.d ELSE dim,
                       vectors |-> faiss_index.vectors \o threads[w].vectors]
    /\ threads' = [threads EXCEPT ![w].pc = "register"]
    /\ UNCHANGED <<id_to_chunk, chunk_ids, dim, config, embedder, graph_calls, ret,
                   graph_chunks, graph_config>>

\* index, lines 62-64: one iteration of the loop; the call returns after the last.
IndexRegister(w) ==
    /\ threads[w].pc = "register"
    /\ LET t == threads[w]
           chunk == t.new_chunks[t.i]
       IN /\ id_to_chunk' = Register(id_to_chunk, <<chunk>>)
          /\ chunk_ids' = Append(chunk_ids, chunk.id)
          /\ IF t.i = Len(t.new_chunks)
             THEN /\ threads' = [threads EXCEPT ![w] = IdleThread]
                  /\ ret' = [Ret("index", "ok") EXCEPT !.batch = t.batch]
             ELSE /\ threads' = [threads EXCEPT ![w].i = t.i + 1]
                  /\ UNCHANGED ret
    /\ UNCHANGED <<faiss_index, dim, config, embedder, graph_calls, graph_chunks,
                   graph_config>>

\* _semantic_search(query) by a reader, on the fields as they are now.
Search(query, idxs) ==
    /\ SemanticSearchPath # "error"
    /\ ret' = [Ret("search", "ok") EXCEPT
                  !.query = query,
                  !.semantic_hits = SemanticHits(query, idxs),
                  !.seen_vectors = Len(faiss_index.vectors),
                  !.seen_ids = Len(chunk_ids)]
    /\ UNCHANGED <<index_state, config, embedder, graph_calls, pipeline_state>>

InitConc ==
    /\ id_to_chunk = <<>>
    /\ chunk_ids = <<>>
    /\ faiss_index = NoFaissIndex
    /\ dim = NoDim
    /\ config \in RetrievalConfig
    /\ embedder \in Embedders
    /\ graph_calls = <<>>
    /\ ret = Ret("init", "ok")
    /\ threads = [w \in Writers |-> IdleThread]
    /\ graph_chunks = <<>>
    /\ graph_config = GraphConfigDefault

NextConc ==
    \/ \E w \in Writers : \E chunks \in Batches : IndexStart(w, chunks)
    \/ \E w \in Writers : IndexAdd(w)
    \/ \E w \in Writers : IndexRegister(w)
    \/ \E query \in Queries : \E idxs \in SearchChoices(query) : Search(query, idxs)

SpecConc == InitConc /\ [][NextConc]_vars

\* ------------------------------------------------------- GraphRAGPipeline
\* PipelineConfig(chunk_size=2, chunk_overlap=1): chunks of two words, one shared.
Chunking == [chunk_size |-> 2, chunk_overlap |-> 1]

\* PipelineConfig.graph values the pipeline may be constructed with.
GraphConfigs == { GraphConfigDefault, [max_hops |-> 3] }

\* The documents _load_documents returns: texts, given by their words.
Words == {"u", "v"}
Documents ==
    { ds \in SeqsUpTo(SeqsUpTo(Words, MaxWords), MaxDocs) : ds # <<>> }

\* " ".join(piece)
RECURSIVE Join(_)
Join(piece) ==
    IF piece = <<>> THEN ""
    ELSE IF Len(piece) = 1 THEN piece[1]
    ELSE piece[1] \o " " \o Join(Tail(piece))

\* f"chunk_{idx}_{start}"
ChunkIdOf(idx, start) == "chunk_" \o ToString(idx) \o "_" \o ToString(start)

\* The inner loop of _chunk_documents for document idx (from 0): one chunk per
\* start in range(0, len(words), step), step = chunk_size - chunk_overlap > 0.
ChunksOfDocument(idx, words) ==
    LET step == Chunking.chunk_size - Chunking.chunk_overlap
        n == (Len(words) + step - 1) \div step
    IN [k \in 1..n |->
          LET start == (k - 1) * step
          IN [id |-> ChunkIdOf(idx, start),
              text |-> Join(SubSeq(words, start + 1,
                                   Min(start + Chunking.chunk_size, Len(words))))]]

\* _chunk_documents(documents), from document number idx on
RECURSIVE ChunkDocuments(_, _)
ChunkDocuments(documents, idx) ==
    IF documents = <<>> THEN <<>>
    ELSE ChunksOfDocument(idx, Head(documents)) \o ChunkDocuments(Tail(documents), idx + 1)

\* GraphStore._upsert_chunks: MERGE (c:Chunk {chunk_id: row.id}) SET c.text = row.text
RECURSIVE UpsertChunks(_, _)
UpsertChunks(nodes, chunks) ==
    IF chunks = <<>> THEN nodes
    ELSE LET c == Head(chunks)
         IN UpsertChunks([i \in DOMAIN nodes \cup {c.id} |->
                             IF i = c.id THEN c.text ELSE nodes[i]],
                         Tail(chunks))

\* build_indexes(paths): ingest, upsert to the graph, then index in the Retriever.
\* upsert_raised: GraphStore.upsert raises.
BuildIndexes(documents, upsert_raised) ==
    LET chunks == ChunkDocuments(documents, 0)
        outcome == IndexOutcome(chunks)
    IN /\ Len(chunk_ids) + Len(NewChunks(chunks)) <= MaxIndexed
       /\ IF chunks = <<>>
          THEN /\ ret' = Ret("build_indexes", "no_chunks")
               /\ graph_calls' = <<>>
               /\ UNCHANGED <<index_state, graph_chunks>>
          ELSE /\ graph_calls' = << [fn |-> "upsert",
                                     node_ids |-> [i \in DOMAIN chunks |-> chunks[i].id],
                                     max_hops |-> 0, limit |-> 0] >>
               /\ IF upsert_raised
                  THEN /\ ret' = [Ret("build_indexes", "graph_error") EXCEPT
                                     !.batch = chunks, !.graph_raised = TRUE]
                       /\ UNCHANGED <<index_state, graph_chunks>>
                  ELSE /\ graph_chunks' = UpsertChunks(graph_chunks, chunks)
                       /\ IF outcome = "ok"
                          THEN IndexAppend(chunks)
                          ELSE UNCHANGED index_state
                       /\ ret' = [Ret("build_indexes", outcome) EXCEPT !.batch = chunks]
       /\ UNCHANGED <<config, embedder, threads, graph_config>>

\* GraphRAGPipeline(config): the Retriever gets config.retrieval and a TextEmbedder;
\* config.graph is kept in the pipeline's config.
InitPipeline ==
    /\ id_to_chunk = <<>>
    /\ chunk_ids = <<>>
    /\ faiss_index = NoFaissIndex
    /\ dim = NoDim
    /\ config \in RetrievalConfig
    /\ embedder = [valid |-> TRUE, dim |-> 1]
    /\ graph_calls = <<>>
    /\ ret = Ret("init", "ok")
    /\ threads = NoThreads
    /\ graph_chunks = <<>>
    /\ graph_config \in GraphConfigs

\* build_indexes, and the two calls of answer that the model follows.
NextPipeline ==
    \/ \E documents \in Documents : \E upsert_raised \in BOOLEAN :
         BuildIndexes(documents, upsert_raised)
    \/ \E query \in Queries : \E idxs \in SearchChoices(query) :
         \E entry_entities \in Seeds :
            \E answer \in IF entry_entities = <<>> \/ SemanticSearchPath = "error"
                          THEN {NoAnswer}
                          ELSE NeighborAnswers(config.top_k_graph) :
               Retrieve(query, entry_entities, idxs, answer)
    \/ \E answer \in CentralityAnswers([i \in DOMAIN ret.merged |-> ret.merged[i].chunk.id]) :
         Rerank(answer)

SpecPipeline == InitPipeline /\ [][NextPipeline]_vars

\* ================================================================== claims
NoRepeatedId(ids) == \A i, j \in DOMAIN ids : i # j => ids[i] # ids[j]
HitIds(hits) == { hits[i].chunk.id : i \in DOMAIN hits }
SortedDesc(hits) == \A i, j \in DOMAIN hits : i < j => hits[i].score >= hits[j].score

\* C1 (Spec): an index call that repeats the batch of the index call right before it
\* leaves _id_to_chunk, _chunk_ids, the fixed dimension and the vectors of the
\* index as the first call left them.
C1_IdempotentIndexing ==
    [][ (ret.op = "index" /\ ret'.op = "index" /\ ret'.batch = ret.batch)
        => index_state' = index_state ]_vars

\* The second of two index calls with the same non-empty batch, the first of which
\* indexed the batch.
C1_Witness ==
    /\ ret.op = "index"
    /\ ret.repeat
    /\ ret.batch # <<>>
    /\ \A i \in DOMAIN ret.batch : ret.batch[i].id \in Range(chunk_ids)

\* C2 (Spec): once the dimension is fixed, an index call whose new chunks are
\* embedded (as a 2-D array) with another dimension raises the dimension error and
\* leaves vectors, _chunk_ids, _id_to_chunk and the dimension as they were.
C2_DimensionInvariant ==
    [][ ( /\ ret'.op = "index"
          /\ dim # NoDim
          /\ NewChunks(ret'.batch) # <<>>
          /\ embedder.valid
          /\ embedder.dim # dim )
        => (ret'.outcome = "dim_error" /\ index_state' = index_state) ]_vars

\* An index call rejected for its dimension on an index that holds chunks.
C2_Witness ==
    /\ ret.op = "index"
    /\ ret.outcome = "dim_error"
    /\ chunk_ids # <<>>
    /\ dim # embedder.dim

\* C3 (Spec): no id occurs twice in _chunk_ids, and the index holds as many
\* vectors as _id_to_chunk holds ids.
C3_ChunkIdUniqueness ==
    /\ NoRepeatedId(chunk_ids)
    /\ Len(faiss_index.vectors) = Cardinality(DOMAIN id_to_chunk)

\* C4 (Spec): the index holds one vector per entry of _chunk_ids, and every id of
\* _chunk_ids resolves in _id_to_chunk.
C4_MembershipConsistency ==
    /\ Len(faiss_index.vectors) = Len(chunk_ids)
    /\ \A i \in DOMAIN chunk_ids : chunk_ids[i] \in DOMAIN id_to_chunk

\* An index call that raised the shape error on an index that holds chunks.
C4_Witness ==
    /\ ret.op = "index"
    /\ ret.outcome = "shape_error"
    /\ chunk_ids # <<>>
    /\ NewChunks(ret.batch) # <<>>

\* C5 (SpecPure): the list returned by _merge (and so RetrievalResult.merged) holds
\* no id twice and holds exactly the ids of its two input lists.
C5_MergedIdsUnique ==
    (ret.op \in {"merge", "retrieve"} /\ ret.outcome = "ok")
    => /\ NoRepeatedId([i \in DOMAIN ret.merged |-> ret.merged[i].chunk.id])
       /\ HitIds(ret.merged) = HitIds(ret.semantic_hits) \cup HitIds(ret.graph_hits)

\* _merge has run on lists in which an id occurs twice in semantic, twice in graph.
C5_Witness ==
    /\ ret.op = "merge"
    /\ Len(ret.semantic_hits) = 2
    /\ Len(ret.graph_hits) = 2
    /\ ret.semantic_hits[1].chunk.id = ret.semantic_hits[2].chunk.id
    /\ ret.graph_hits[1].chunk.id = ret.graph_hits[2].chunk.id

\* The score the merge rule gives id, from the scores of the two input lists.
C6_Expected(id) ==
    LET s == { ret.semantic_hits[i].score :
                 i \in { k \in DOMAIN ret.semantic_hits : ret.semantic_hits[k].chunk.id = id } }
        g == { ret.graph_hits[i].score :
                 i \in { k \in DOMAIN ret.graph_hits : ret.graph_hits[k].chunk.id = id } }
        a == config.alpha_semantic
    IN IF g = {} THEN s
       ELSE IF s = {} THEN g
       ELSE { (a * x + (10 - a) * y) \div 10 : x \in s, y \in g }

C6_ExampleSemantic ==
    << [chunk |-> [id |-> "a", text |-> "t1"], score |-> 90000],
       [chunk |-> [id |-> "b", text |-> "t1"], score |-> 50000] >>
C6_ExampleGraph ==
    << [chunk |-> [id |-> "b", text |-> "t1"], score |-> ONE],
       [chunk |-> [id |-> "c", text |-> "t1"], score |-> ONE] >>
C6_ExampleMerged ==
    << [chunk |-> [id |-> "c", text |-> "t1"], score |-> ONE],
       [chunk |-> [id |-> "a", text |-> "t1"], score |-> 90000],
       [chunk |-> [id |-> "b", text |-> "t1"], score |-> 70000] >>

\* C6 (SpecPure): for input lists without repeated ids, an id of semantic only keeps
\* its semantic score, an id of graph only its graph score, an id of both gets
\* alpha * semantic + (1 - alpha) * graph; the output is sorted by descending score;
\* S=[(a,0.9),(b,0.5)], G=[(b,1.0),(c,1.0)], alpha=0.6 give [c 1.0, a 0.9, b 0.7].
C6_MergeCorrectness ==
    ( /\ ret.op = "merge"
      /\ NoRepeatedId([i \in DOMAIN ret.semantic_hits |-> ret.semantic_hits[i].chunk.id])
      /\ NoRepeatedId([i \in DOMAIN ret.graph_hits |-> ret.graph_hits[i].chunk.id]) )
    => /\ \A i \in DOMAIN ret.merged :
             {ret.merged[i].score} = C6_Expected(ret.merged[i].chunk.id)
       /\ SortedDesc(ret.merged)
       /\ ( /\ config.alpha_semantic = 6
            /\ ret.semantic_hits = C6_ExampleSemantic
            /\ ret.graph_hits = C6_ExampleGraph ) => ret.merged = C6_ExampleMerged

\* _merge has run on the example lists with alpha = 0.6.
C6_Witness ==
    /\ ret.op = "merge"
    /\ config.alpha_semantic = 6
    /\ ret.semantic_hits = C6_ExampleSemantic
    /\ ret.graph_hits = C6_ExampleGraph

\* C7 (Spec): the semantic list of every RetrievalResult that retrieve returns is
\* ordered by descending score (stated for an index in which no id is repeated, so
\* that the semantic hits have distinct ids).
C7_SemanticSortedAfterMerge ==
    (ret.op = "retrieve" /\ ret.outcome = "ok" /\ NoRepeatedId(chunk_ids))
    => SortedDesc(ret.semantic)

\* C8 (SpecPure): rerank of a non-empty merged list whose centrality lookup returns
\* no entry returns the merged list as it is: same items, order and scores.
C8_RerankFallback ==
    ( /\ ret.op = "rerank"
      /\ ret.outcome = "ok"
      /\ ret.merged_in # <<>>
      /\ DOMAIN ret.centrality \cap HitIds(ret.merged_in) = {} )
    => ret.items = ret.merged_in

\* rerank has fallen back on a list of two items that is not in descending order.
C8_Witness ==
    /\ ret.op = "rerank"
    /\ ret.outcome = "ok"
    /\ DOMAIN ret.centrality = {}
    /\ Len(ret.merged_in) = 2
    /\ ret.merged_in[1].score < ret.merged_in[2].score
    /\ ret.items = ret.merged_in

\* The item rerank makes of a merged item: 0.7 * score + 0.3 * centrality, 0 if missing.
C9_Rescored(hit) ==
    [chunk |-> hit.chunk,
     score |-> (7 * hit.score
                + 3 * (IF hit.chunk.id \in DOMAIN ret.centrality
                       THEN ret.centrality[hit.chunk.id] ELSE 0)) \div 10]

\* C9 (SpecPure): when the centrality lookup returns an entry, rerank returns one
\* item per merged item, each scored 0.7 * score + 0.3 * centrality (0 if missing),
\* in descending order of that score; score 0.8 with centrality 0.5 gives 0.71.
C9_RerankBlend ==
    ( /\ ret.op = "rerank"
      /\ ret.outcome = "ok"
      /\ DOMAIN ret.centrality # {} )
    => /\ Len(ret.items) = Len(ret.merged_in)
       /\ \E p \in [DOMAIN ret.items -> DOMAIN ret.merged_in] :
             /\ \A i, j \in DOMAIN ret.items : i # j => p[i] # p[j]
             /\ \A i \in DOMAIN ret.items : ret.items[i] = C9_Rescored(ret.merged_in[p[i]])
       /\ SortedDesc(ret.items)
       /\ ( /\ Len(ret.merged_in) = 1
            /\ ret.merged_in[1].score = 80000
            /\ ret.centrality = [k \in {ret.merged_in[1].chunk.id} |-> 50000] )
          => ret.items[1].score = 71000

\* rerank has blended two items, one of which the centrality answer does not hold.
C9_Witness ==
    /\ ret.op = "rerank"
    /\ ret.outcome = "ok"
    /\ Len(ret.merged_in) = 2
    /\ Len(ret.items) = 2
    /\ Cardinality(DOMAIN ret.centrality) = 1
    /\ ret.merged_in[1].chunk.id \in DOMAIN ret.centrality
    /\ ret.merged_in[2].chunk.id \notin DOMAIN ret.centrality
    /\ ret.items[1].chunk.id = ret.merged_in[2].chunk.id

\* C10 (Spec): a retrieve call with no seeds makes no call to GraphStore.neighbors,
\* and its graph expansion is empty.
C10_EmptySeedExpansion ==
    (ret.op = "retrieve" /\ ret.seeds = <<>>)
    => /\ \A i \in DOMAIN graph_calls : graph_calls[i].fn # "neighbors"
       /\ ret.graph_hits = <<>>
       /\ ret.graph = <<>>

\* retrieve has returned semantic hits for a call without seeds.
C10_Witness ==
    /\ ret.op = "retrieve"
    /\ ret.outcome = "ok"
    /\ ret.seeds = <<>>
    /\ ret.semantic # <<>>

\* C11 (Spec): a retrieve call with seeds whose GraphStore.neighbors call raises
\* still returns: a RetrievalResult with an empty graph list, and with semantic and
\* merged holding the hits of the semantic search.
C11_GracefulGraphExpansion ==
    (ret.op = "retrieve" /\ ret.seeds # <<>> /\ ret.graph_raised)
    => /\ ret.outcome = "ok"
       /\ ret.graph = <<>>
       /\ ret.semantic = ret.semantic_hits
       /\ Range(ret.merged) = Range(ret.semantic_hits)

\* C12 (Spec): a rerank call on a non-empty merged list whose
\* GraphStore.centrality_score call raises still returns, and its items are the
\* merged list unchanged.
C12_RerankGraphUnavailable ==
    (ret.op = "rerank" /\ ret.merged_in # <<>> /\ ret.graph_raised)
    => /\ ret.outcome = "ok"
       /\ ret.items = ret.merged_in

\* C13 (SpecConc): a search running while index calls are in progress finds
\* as many vectors in the index as there are entries in the position-to-ID list,
\* and every position it finds resolves to a registered chunk.
C13_ReaderAtomicity ==
    ret.op = "search"
    => /\ ret.seen_vectors = ret.seen_ids
       /\ Len(faiss_index.vectors) = Len(chunk_ids)
       /\ \A p \in DOMAIN faiss_index.vectors : chunk_ids[p] \in DOMAIN id_to_chunk

\* C14 (SpecConc): whenever no index call is in progress, whatever the
\* interleaving of the calls made so far, every id holds one position and position
\* i of the index holds the vector of the chunk registered under entry i of the
\* position-to-ID list.
C14_SingleWriterIndexing ==
    (\A w \in Writers : threads[w].pc = "idle")
    => /\ NoRepeatedId(chunk_ids)
       /\ Len(faiss_index.vectors) = Len(chunk_ids)
       /\ \A p \in DOMAIN chunk_ids :
             faiss_index.vectors[p].text = id_to_chunk[chunk_ids[p]].text

\* C15 (Spec): across index, retrieve and rerank calls the position-to-ID list
\* only grows at its end (every entry keeps its position), an id registered stays
\* registered with the chunk it was registered with, the vectors already in the
\* index keep their positions, and retrieve and rerank leave the index state as
\* it is.
C15_AppendOnlyGrowth ==
    [][ /\ Len(chunk_ids') >= Len(chunk_ids)
        /\ \A p \in DOMAIN chunk_ids : chunk_ids'[p] = chunk_ids[p]
        /\ \A id \in DOMAIN id_to_chunk :
              id \in DOMAIN id_to_chunk' /\ id_to_chunk'[id] = id_to_chunk[id]
        /\ Len(faiss_index'.vectors) >= Len(faiss_index.vectors)
        /\ \A p \in DOMAIN faiss_index.vectors :
              faiss_index'.vectors[p] = faiss_index.vectors[p]
        /\ (ret'.op \in {"retrieve", "rerank"} => index_state' = index_state) ]_vars

\* An index call has appended a chunk to an index that already held one.
C15_Witness ==
    /\ ret.op = "index"
    /\ ret.outcome = "ok"
    /\ Len(ret.batch) = 1
    /\ Len(chunk_ids) = 2
    /\ chunk_ids[2] = ret.batch[1].id
    /\ chunk_ids[1] # chunk_ids[2]

\* C16 (Spec): every retrieve call runs with positive top_k_vectors, top_k_graph,
\* alpha_semantic and max_hops.
C16_ConfigurationValidated ==
    ret.op = "retrieve"
    => /\ config.top_k_vectors > 0
       /\ config.top_k_graph > 0
       /\ config.alpha_semantic > 0
       /\ graph_config.max_hops > 0

\* C17 (SpecPipeline): every call retrieve makes to GraphStore.neighbors, for a
\* call with seeds, passes the configured max_hops as max_hops and the configured
\* top_k_graph as limit.
C17_ConfiguredHopBound ==
    (ret.op = "retrieve" /\ ret.seeds # <<>>)
    => \A i \in DOMAIN graph_calls :
          graph_calls[i].fn = "neighbors"
          => /\ graph_calls[i].max_hops = graph_config.max_hops
             /\ graph_calls[i].limit = config.top_k_graph

\* The mapping from chunk id to score a hit list stands for, and the lists that
\* hold the entries of a list in another order.
C18_ScoreMap(hits) == { <<hits[i].chunk.id, hits[i].score>> : i \in DOMAIN hits }
C18_Reorderings(hits) ==
    { [i \in DOMAIN hits |-> hits[p[i]]] :
        p \in { q \in [DOMAIN hits -> DOMAIN hits] :
                  \A i, j \in DOMAIN hits : i # j => q[i] # q[j] } }

\* C18 (Spec): the merged list of a retrieve call maps every chunk id to the same
\* score as _merge does on the same semantic hits and the same graph hits taken in
\* any other order (the merged list being sorted by that score).
C18_MergeOrderIndependent ==
    (ret.op = "retrieve" /\ ret.outcome = "ok")
    => \A s2 \in C18_Reorderings(ret.semantic_hits) :
          \A g2 \in C18_Reorderings(ret.graph_hits) :
             LET m2 == Merge(config.alpha_semantic, s2, g2).merged
             IN /\ C18_ScoreMap(m2) = C18_ScoreMap(ret.merged)
                /\ SortedDesc(m2)

\* C19 (SpecPipeline): after any sequence of build_indexes calls, every chunk id
\* upserted to the graph is registered in the Retriever with the text most
\* recently upserted for it (upsert and index either both took place or neither).
C19_GraphIndexAgreement ==
    \A id \in DOMAIN graph_chunks :
       /\ id \in DOMAIN id_to_chunk
       /\ id_to_chunk[id].text = graph_chunks[id]

====
